---- MODULE Spec2Model ----
(***************************************************************************)
(* A model of lithium-hedge-cloud: the Streamlit application app_cloud.py  *)
(* (session state, page handlers, CloudUserAuth, CloudLithiumAnalyzer) and *)
(* the Supabase record store utils/supabase_client.py (users, settings,    *)
(* reset codes, analysis history).                                         *)
(*                                                                         *)
(* Conventions.                                                            *)
(*  - Python strings are sequences of one-character strings, so that       *)
(*    len(), strip() and the `in` test are computed, not assumed.          *)
(*  - None in a string slot is the one-element sequence <<"None">>.        *)
(*  - A Python value whose type the code inspects (isinstance) is a record *)
(*    with a "kind" field: tuple, dict, bool or str.                       *)
(*  - Every SupabaseManager method wraps its body in try/except; a backend *)
(*    call takes a flag `fail`: TRUE when the queries of that call raise.  *)
(*  - Timestamps created_at / last_login of users are not part of the      *)
(*    model.                                                               *)
(*  - main() builds a new CloudLithiumAnalyzer on every run of the script, *)
(*    so a page handler starts from, and leaves behind, the empty cache;   *)
(*    only a client that keeps one analyzer sees its cache fill.           *)
(***************************************************************************)
EXTENDS Integers, Sequences, FiniteSets, TLC

VARIABLES
    has_supabase,    \* HAS_SUPABASE: the Supabase manager was built
    users,           \* table "users"
    user_settings,   \* table "user_settings"
    reset_codes,     \* table "reset_codes"
    analysis_history,\* table "analysis_history"
    now,             \* datetime.utcnow(), in half hours
    verified,        \* history: (username, code) pairs verify_reset_code accepted
    session_state,   \* st.session_state
    analyzer,        \* CloudLithiumAnalyzer: cache_data and cache_time
    calls,           \* verify_reset_code calls between their two requests
    ui               \* what the last handler or call did and returned

vars == <<has_supabase, users, user_settings, reset_codes, analysis_history,
          now, verified, session_state, analyzer, calls, ui>>

(***************************************************************************)
(* Bounds of the model                                                     *)
(***************************************************************************)
MaxUsers == 3        \* rows the users table may hold
MaxCodes == 2        \* rows the reset_codes table may hold
MaxTime == 4         \* the clock stops here (half hours)
MaxHistory == 1      \* rows the analysis_history table may hold

(***************************************************************************)
(* Strings                                                                 *)
(***************************************************************************)
None == <<"None">>
NoId == "None"
EmptyStr == <<>>

U_ali == <<"a", "l", "i">>
U_bob == <<"b", "o", "b">>
U_zed == <<"z", "e", "d">>
U_ab == <<"a", "b">>
U_bob_padded == <<" ", "b", "o", "b">>
U_ab_padded == <<" ", "a", "b", " ">>

E_ali == <<"a", "@", "x", ".", "c">>
E_bob == <<"b", "@", "x", ".", "c">>
E_zed == <<"z", "@", "x", ".", "c">>
E_bad == <<"b", "x">>
E_nodot == <<"b", "@", "x">>

P_one == <<"p", "w", "1", "2", "3", "4">>
P_two == <<"q", "w", "1", "2", "3", "4">>
P_three == <<"r", "w", "1", "2", "3", "4">>
P_short == <<"p", "w">>

Code_a == <<"1", "2", "3", "4", "5", "6">>
Code_b == <<"6", "5", "4", "3", "2", "1">>

\* str.strip(): leading and trailing blanks removed
RECURSIVE lstrip(_)
lstrip(s) == IF s # <<>> /\ Head(s) = " " THEN lstrip(Tail(s)) ELSE s

RECURSIVE rstrip(_)
rstrip(s) ==
    IF s # <<>> /\ s[Len(s)] = " " THEN rstrip(SubSeq(s, 1, Len(s) - 1)) ELSE s

strip(s) == rstrip(lstrip(s))

\* c in s
Contains(s, c) == \E i \in 1..Len(s) : s[i] = c

(***************************************************************************)
(* Python values                                                           *)
(***************************************************************************)
PyTuple(items) == [kind |-> "tuple", items |-> items]
PyDict(d) == [kind |-> "dict", val |-> d]
PyBool(b) == [kind |-> "bool", val |-> b]
PyStr(s) == [kind |-> "str", val |-> s]
PyNone == [kind |-> "none"]

\* bool(v)
Truthy(v) ==
    CASE v.kind = "bool" -> v.val
      [] v.kind = "str" -> v.val # ""
      [] v.kind = "tuple" -> v.items # <<>>
      [] v.kind = "dict" -> TRUE
      [] v.kind = "none" -> FALSE

\* a settings dictionary; {} and None are present = FALSE
EmptySettings == [present |-> FALSE, default_cost_price |-> 0,
                  default_inventory |-> 0, default_hedge_ratio_pct |-> 0,
                  theme_color |-> "none"]

\* the result dictionaries of SupabaseManager: {"success": False, "message": m}
\* carries no user keys (has_user = FALSE)
FailDict(message) ==
    PyDict([success |-> FALSE, message |-> message, has_user |-> FALSE,
            user_id |-> NoId, username |-> None, email |-> None,
            settings |-> EmptySettings])

(***************************************************************************)
(* SupabaseManager: users and settings.  db is the record of the tables;   *)
(* every method gives its return value and the tables afterwards.          *)
(***************************************************************************)
\* bcrypt.hashpw: the salt is left out, the digest determines the password
_hash_password(password) == [alg |-> "bcrypt", of |-> password]

_verify_password(password, hashed_password) ==
    hashed_password = _hash_password(password)

\* secrets.token_hex: a token no row of the table carries yet
TokenPool == <<"t1", "t2", "t3", "t4", "t5", "t6">>

FreshToken(used) ==
    TokenPool[CHOOSE i \in 1..Len(TokenPool) :
                 /\ TokenPool[i] \notin used
                 /\ \A j \in 1..(i - 1) : TokenPool[j] \in used]

\* the rows get_user_by_username finds (None is the empty set)
get_user_by_username(db, username, fail) ==
    IF fail THEN {} ELSE {r \in db.users : r.username = username}

get_user_by_email(db, email, fail) ==
    IF fail THEN {} ELSE {r \in db.users : r.email = email}

\* create_user_settings(user_id): the default row
DefaultSettings(user_id) ==
    [user_id |-> user_id, default_cost_price |-> 100000,
     default_inventory |-> 100, default_hedge_ratio_pct |-> 80,
     theme_color |-> "blue"]

SettingsOf(row) ==
    [present |-> TRUE, default_cost_price |-> row.default_cost_price,
     default_inventory |-> row.default_inventory,
     default_hedge_ratio_pct |-> row.default_hedge_ratio_pct,
     theme_color |-> row.theme_color]

create_user_settings(db, user_id) ==
    [db EXCEPT !.user_settings = @ \cup {DefaultSettings(user_id)}]

create_user(db, username, password, email, fail) ==
    IF get_user_by_username(db, username, fail) # {}
    THEN [ret |-> FailDict("username exists"), db |-> db]
    ELSE IF get_user_by_email(db, email, fail) # {}
    THEN [ret |-> FailDict("email registered"), db |-> db]
    ELSE IF fail
    THEN [ret |-> FailDict("register error"), db |-> db]
    ELSE LET user_id == FreshToken({r.user_id : r \in db.users})
             row == [user_id |-> user_id, username |-> username,
                     password_hash |-> _hash_password(password),
                     email |-> email, is_active |-> TRUE]
         IN  [ret |-> PyDict([success |-> TRUE, message |-> "registered",
                              has_user |-> TRUE, user_id |-> user_id,
                              username |-> username, email |-> email,
                              settings |-> EmptySettings]),
              db |-> create_user_settings(
                         [db EXCEPT !.users = @ \cup {row}], user_id)]

\* get_user_settings: the row of the user, created with the defaults when missing
get_user_settings(db, user_id) ==
    IF \E s \in db.user_settings : s.user_id = user_id
    THEN {[ret |-> SettingsOf(s), db |-> db] :
             s \in {t \in db.user_settings : t.user_id = user_id}}
    ELSE {[ret |-> SettingsOf(DefaultSettings(user_id)),
           db |-> create_user_settings(db, user_id)]}

\* authenticate_user: the possible results (response.data[0] is any matching row)
authenticate_user(db, username, password, fail) ==
    LET found == {r \in db.users : r.username = username /\ r.is_active}
    IN  IF fail
        THEN {[ret |-> FailDict("login error"), db |-> db]}
        ELSE IF found = {}
        THEN {[ret |-> FailDict("no such user"), db |-> db]}
        ELSE UNION {
               IF ~_verify_password(password, user.password_hash)
               THEN {[ret |-> FailDict("wrong password"), db |-> db]}
               ELSE {[ret |-> PyDict([success |-> TRUE, message |-> "logged in",
                                      has_user |-> TRUE, user_id |-> user.user_id,
                                      username |-> user.username,
                                      email |-> user.email,
                                      settings |-> g.ret]),
                      db |-> g.db] : g \in get_user_settings(db, user.user_id)}
               : user \in found}

update_user_password(db, username, new_password, fail) ==
    IF fail
    THEN [ret |-> PyBool(FALSE), db |-> db]
    ELSE [ret |-> PyBool(TRUE),
          db |-> [db EXCEPT !.users =
                    {IF r.username = username
                     THEN [r EXCEPT !.password_hash = _hash_password(new_password)]
                     ELSE r : r \in @}]]

(***************************************************************************)
(* CloudUserAuth.  Each method gives (ok, payload), the tables afterwards  *)
(* and `backend`: what the SupabaseManager method it reached reported      *)
(* ("none" when no backend method was called).                             *)
(***************************************************************************)
\* _normalize_result(ret, default_ok) -> (ok, payload)
_normalize_result(ret, default_ok) ==
    IF ret.kind = "tuple"
    THEN IF Len(ret.items) >= 2 THEN <<Truthy(ret.items[1]), ret.items[2]>>
         ELSE IF Len(ret.items) = 1 THEN <<Truthy(ret.items[1]), PyNone>>
         ELSE <<default_ok, PyNone>>
    ELSE <<default_ok, ret>>

Early(db, message) ==
    [ok |-> FALSE, payload |-> PyStr(message), db |-> db, backend |-> "none",
     called |-> FALSE]

Reported(ret) ==
    IF ret.kind = "dict" THEN (IF ret.val.success THEN "success" ELSE "failure")
    ELSE IF ret.kind = "bool" THEN (IF ret.val THEN "success" ELSE "failure")
    ELSE "none"

Normalized(out, default_ok) ==
    [ok |-> _normalize_result(out.ret, default_ok)[1],
     payload |-> _normalize_result(out.ret, default_ok)[2],
     db |-> out.db, backend |-> Reported(out.ret), called |-> TRUE]

\* a register that hands whatever it is given to the backend
register_unchecked(db, username, password, email, fail) ==
    IF ~has_supabase THEN Early(db, "database connection failed")
    ELSE Normalized(create_user(db, strip(username), password, strip(email), fail),
                    TRUE)

\* register: the first helper the backend has is create_user
register(db, username, password, email, fail) ==
    IF ~has_supabase THEN Early(db, "database connection failed")
    ELSE IF Len(strip(username)) < 3 THEN Early(db, "username too short")
    ELSE IF ~(Contains(strip(email), "@") /\ Contains(strip(email), "."))
    THEN Early(db, "invalid email")
    ELSE IF Len(password) < 6 THEN Early(db, "password too short")
    ELSE Normalized(create_user(db, strip(username), password, strip(email), fail),
                    TRUE)

\* login: the first helper the backend has is authenticate_user
login(db, username_or_email, password, fail) ==
    IF ~has_supabase THEN {Early(db, "database connection failed")}
    ELSE IF strip(username_or_email) = <<>> THEN {Early(db, "enter the username")}
    ELSE IF password = <<>> THEN {Early(db, "enter the password")}
    ELSE {Normalized(a, TRUE) :
            a \in authenticate_user(db, strip(username_or_email), password, fail)}

\* change_password: the backend has no change_password and no update_password;
\* update_user_password(username, old, new) raises TypeError (it takes two
\* arguments), and the except branch calls it with (username, new_password)
change_password(db, username_or_email, old_password, new_password, fail) ==
    IF ~has_supabase THEN Early(db, "database connection failed")
    ELSE IF Len(new_password) < 6 THEN Early(db, "new password too short")
    ELSE Normalized(update_user_password(db, username_or_email, new_password, fail),
                    TRUE)

\* reset_password(username_or_email, new_password): the backend has no
\* reset_password and no set_password; update_user_password is called
reset_password(db, username_or_email, new_password, fail) ==
    IF ~has_supabase THEN Early(db, "database connection failed")
    ELSE IF Len(new_password) < 6 THEN Early(db, "new password too short")
    ELSE Normalized(update_user_password(db, username_or_email, new_password, fail),
                    TRUE)

(***************************************************************************)
(* st.session_state and the pages main() shows                             *)
(***************************************************************************)
NoUserInfo ==
    [is_none |-> TRUE, has_user_id |-> FALSE, user_id |-> NoId,
     username |-> None, email |-> None, settings |-> EmptySettings]

\* the user_info dictionary the login handlers build from the payload;
\* result.get("user_id") or result.get("id"), result.get("username") or typed
UserInfoFrom(result, typed_username, email_default) ==
    IF result.kind = "dict"
    THEN [is_none |-> FALSE, has_user_id |-> TRUE,
          user_id |-> IF result.val.has_user THEN result.val.user_id ELSE NoId,
          username |-> IF result.val.has_user THEN result.val.username
                       ELSE typed_username,
          email |-> IF result.val.has_user THEN result.val.email
                    ELSE email_default,
          settings |-> result.val.settings]
    ELSE [is_none |-> FALSE, has_user_id |-> FALSE, user_id |-> NoId,
          username |-> typed_username, email |-> email_default,
          settings |-> EmptySettings]

Db == [users |-> users, user_settings |-> user_settings,
       reset_codes |-> reset_codes, analysis_history |-> analysis_history]

SetDb(db) ==
    /\ users' = db.users
    /\ user_settings' = db.user_settings
    /\ reset_codes' = db.reset_codes
    /\ analysis_history' = db.analysis_history

\* what a handler leaves behind for the observer
Quiet ==
    [op |-> "init", ok |-> FALSE, backend |-> "none", shown |-> "none",
     raised |-> "none", username |-> None, code |-> None, existed |-> FALSE,
     autologin |-> FALSE, old_matched |-> FALSE, calculated |-> FALSE,
     data |-> "none", save |-> "none", fig_none |-> TRUE,
     metrics_none |-> TRUE, suggestions_none |-> TRUE,
     calc |-> [kind |-> "none"]]

\* main(): which page an unauthenticated session is shown
AuthPageShown ==
    /\ ~session_state.authenticated
    /\ ~session_state.show_forgot_password
    /\ ~(session_state.show_reset_form /\ session_state.reset_username # None)

ForgotPageShown ==
    /\ ~session_state.authenticated
    /\ session_state.show_forgot_password

ResetPageShown ==
    /\ ~session_state.authenticated
    /\ ~session_state.show_forgot_password
    /\ session_state.show_reset_form /\ session_state.reset_username # None

PageShown(page) ==
    session_state.authenticated /\ session_state.current_page = page

(***************************************************************************)
(* render_auth_page                                                        *)
(***************************************************************************)
\* the "login" button
LoginClick(username, password, fail) ==
    /\ AuthPageShown
    /\ \E r \in login(Db, username, password, fail) :
         /\ SetDb(r.db)
         /\ IF r.ok
            THEN session_state' =
                   [session_state EXCEPT
                      !.authenticated = TRUE,
                      !.user_info = UserInfoFrom(r.payload, username, None)]
            ELSE UNCHANGED session_state
         /\ ui' = [Quiet EXCEPT !.op = "login", !.ok = r.ok,
                                !.backend = r.backend,
                                !.shown = IF r.ok THEN "success" ELSE "error",
                                !.username = strip(username)]
    /\ UNCHANGED <<has_supabase, now, verified>>
    /\ UNCHANGED <<analyzer, calls>>

\* the "register and log in" button
RegisterClick(new_username, new_email, new_password, confirm_password, fail, fail2) ==
    /\ AuthPageShown
    /\ Cardinality(users) < MaxUsers
    /\ LET existed == \E u \in users : \/ u.username = strip(new_username)
                                       \/ u.email = strip(new_email)
           rejected(message) ==
               /\ UNCHANGED <<users, user_settings, reset_codes,
                              analysis_history, session_state>>
               /\ ui' = [Quiet EXCEPT !.op = "register_page", !.shown = "error",
                                      !.username = strip(new_username),
                                      !.existed = existed]
       IN  IF new_username = <<>> \/ new_email = <<>> \/ new_password = <<>>
           THEN rejected("fill in the form")
           ELSE IF new_password # confirm_password
           THEN rejected("passwords differ")
           ELSE IF Len(new_password) < 6
           THEN rejected("password too short")
           ELSE LET g == register(Db, new_username, new_password, new_email, fail)
                IN  IF g.ok
                    THEN \E r \in login(g.db, new_username, new_password, fail2) :
                           /\ SetDb(r.db)
                           /\ IF r.ok
                              THEN session_state' =
                                     [session_state EXCEPT
                                        !.authenticated = TRUE,
                                        !.user_info =
                                           UserInfoFrom(r.payload, new_username,
                                                        new_email)]
                              ELSE UNCHANGED session_state
                           /\ ui' = [Quiet EXCEPT
                                       !.op = "register", !.ok = g.ok,
                                       !.backend = g.backend,
                                       !.shown = IF r.ok THEN "success" ELSE "info",
                                       !.username = strip(new_username),
                                       !.existed = existed,
                                       !.autologin = TRUE]
                    ELSE /\ SetDb(g.db)
                         /\ UNCHANGED session_state
                         /\ ui' = [Quiet EXCEPT
                                     !.op = "register", !.ok = g.ok,
                                     !.backend = g.backend, !.shown = "error",
                                     !.username = strip(new_username),
                                     !.existed = existed]
    /\ UNCHANGED <<has_supabase, now, verified>>
    /\ UNCHANGED <<analyzer, calls>>

\* the "forgot password" button
ForgotClick ==
    /\ AuthPageShown
    /\ session_state' = [session_state EXCEPT !.show_forgot_password = TRUE]
    /\ ui' = [Quiet EXCEPT !.op = "forgot"]
    /\ UNCHANGED <<has_supabase, users, user_settings, reset_codes,
                   analysis_history, now, verified>>
    /\ UNCHANGED <<analyzer, calls>>

(***************************************************************************)
(* render_forgot_password                                                  *)
(***************************************************************************)
\* the "get the code" button: generate_reset_code(self, username_or_email) is
\* called with (username, email), which raises TypeError before its body runs
GetCodeClick(username, email) ==
    /\ ForgotPageShown
    /\ ui' = IF username # <<>> /\ email # <<>>
             THEN [Quiet EXCEPT !.op = "get_code", !.raised = "TypeError",
                                !.username = username,
                                !.calc = [kind |-> "get_code", email |-> email]]
             ELSE [Quiet EXCEPT !.op = "get_code", !.shown = "error",
                                !.username = username,
                                !.calc = [kind |-> "get_code", email |-> email]]
    /\ UNCHANGED <<has_supabase, users, user_settings, reset_codes,
                   analysis_history, now, verified, session_state>>
    /\ UNCHANGED <<analyzer, calls>>

\* the "back to login" button
BackToLoginClick ==
    /\ ForgotPageShown
    /\ session_state' = [session_state EXCEPT !.show_forgot_password = FALSE]
    /\ ui' = [Quiet EXCEPT !.op = "back_to_login"]
    /\ UNCHANGED <<has_supabase, users, user_settings, reset_codes,
                   analysis_history, now, verified>>
    /\ UNCHANGED <<analyzer, calls>>

(***************************************************************************)
(* render_main_app and render_settings_page                                *)
(***************************************************************************)
\* the pages of the sidebar radio
Pages == {"home", "hedge", "exposure", "scenario", "settings"}

SelectPage(page) ==
    /\ session_state.authenticated
    /\ session_state.current_page # page
    /\ session_state' = [session_state EXCEPT !.current_page = page]
    /\ ui' = [Quiet EXCEPT !.op = "select_page"]
    /\ UNCHANGED <<has_supabase, users, user_settings, reset_codes,
                   analysis_history, now, verified>>
    /\ UNCHANGED <<analyzer, calls>>

\* the "confirm the new password" button of the settings page
ChangePasswordClick(old_password, new_password, confirm_password, fail) ==
    /\ PageShown("settings")
    /\ LET username == session_state.user_info.username
           old_matched == \E u \in users :
                             /\ u.username = username
                             /\ _verify_password(old_password, u.password_hash)
           rejected ==
               /\ UNCHANGED <<users, user_settings, reset_codes, analysis_history>>
               /\ ui' = [Quiet EXCEPT !.op = "change_password_page",
                                      !.shown = "error", !.username = username,
                                      !.old_matched = old_matched]
       IN  IF old_password = <<>> \/ new_password = <<>> \/ confirm_password = <<>>
           THEN rejected
           ELSE IF new_password # confirm_password THEN rejected
           ELSE IF Len(new_password) < 6 THEN rejected
           ELSE IF old_password = new_password THEN rejected
           ELSE LET r == change_password(Db, username, old_password,
                                         new_password, fail)
                IN  /\ SetDb(r.db)
                    /\ ui' = [Quiet EXCEPT
                                !.op = "change_password", !.ok = r.ok,
                                !.backend = r.backend,
                                !.shown = IF r.ok THEN "success" ELSE "error",
                                !.username = username,
                                !.old_matched = old_matched]
    /\ UNCHANGED <<has_supabase, now, verified, session_state>>
    /\ UNCHANGED <<analyzer, calls>>

\* the "log out" button
LogoutClick ==
    /\ PageShown("settings")
    /\ session_state' = [session_state EXCEPT !.authenticated = FALSE,
                                              !.user_info = NoUserInfo]
    /\ ui' = [Quiet EXCEPT !.op = "logout"]
    /\ UNCHANGED <<has_supabase, users, user_settings, reset_codes,
                   analysis_history, now, verified>>
    /\ UNCHANGED <<analyzer, calls>>

(***************************************************************************)
(* SupabaseManager: reset codes                                            *)
(***************************************************************************)
ResetCodes == {Code_a, Code_b}

\* two concurrent callers of verify_reset_code (two sessions of the app)
Callers == {"c1", "c2"}
Idle == [pc |-> "idle"]

\* a code lives one hour: two half hours
CodeLifetime == 2

\* create_reset_code(username, email) with the six digits drawn being `reset_code`
create_reset_code(db, username, email, reset_code, fail) ==
    LET found == get_user_by_username(db, username, fail)
    IN  IF found = {}
        THEN {[ret |-> PyTuple(<<PyBool(FALSE), PyStr("no such user")>>), db |-> db]}
        ELSE {IF user.email # email
              THEN [ret |-> PyTuple(<<PyBool(FALSE), PyStr("email differs")>>),
                    db |-> db]
              ELSE [ret |-> PyTuple(<<PyBool(TRUE), PyStr("code")>>),
                    db |-> [db EXCEPT !.reset_codes = @ \cup
                              {[code_id |-> FreshToken({c.code_id : c \in @}),
                                username |-> username,
                                reset_code |-> reset_code,
                                expires_at |-> now + CodeLifetime,
                                is_used |-> FALSE]}]]
              : user \in found}

\* verify_reset_code, lines 266-281: the select and the test of expires_at.
\* code_data is any matching unused row; `aware` says the table returns
\* expires_at with a UTC offset ("...Z" or "...+00:00"), which parser.parse
\* turns into an offset-aware datetime: comparing datetime.utcnow() with it
\* raises TypeError, and the except branch returns False
verify_select(db, username, reset_code, fail, aware) ==
    LET found == {c \in db.reset_codes : /\ c.username = username
                                         /\ c.reset_code = reset_code
                                         /\ ~c.is_used}
    IN  IF fail \/ found = {}
        THEN {[go |-> FALSE, code_id |-> NoId]}
        ELSE {IF aware \/ now > code_data.expires_at
              THEN [go |-> FALSE, code_id |-> code_data.code_id]
              ELSE [go |-> TRUE, code_id |-> code_data.code_id]
              : code_data \in found}

\* verify_reset_code, lines 283-293: the update by code_id, and the result
verify_update(db, code_id, fail) ==
    IF fail
    THEN [ret |-> FALSE, db |-> db]
    ELSE [ret |-> TRUE,
          db |-> [db EXCEPT !.reset_codes =
                    {IF c.code_id = code_id
                     THEN [c EXCEPT !.is_used = TRUE] ELSE c : c \in @}]]

\* verify_reset_code(username, reset_code), no other call in between
verify_reset_code(db, username, reset_code, fail, aware) ==
    {IF s.go THEN verify_update(db, s.code_id, FALSE)
     ELSE [ret |-> FALSE, db |-> db]
     : s \in verify_select(db, username, reset_code, fail, aware)}

(***************************************************************************)
(* Calls a client of the two classes makes directly                        *)
(***************************************************************************)
CreateResetCode(username, email, reset_code, fail) ==
    /\ has_supabase
    /\ Cardinality(reset_codes) < MaxCodes
    /\ \E r \in create_reset_code(Db, username, email, reset_code, fail) :
         /\ SetDb(r.db)
         /\ ui' = [Quiet EXCEPT !.op = "create_reset_code",
                                !.ok = r.ret.items[1].val,
                                !.username = username, !.code = reset_code]
    /\ UNCHANGED <<has_supabase, now, verified, session_state>>
    /\ UNCHANGED <<analyzer, calls>>

VerifyResetCode(username, reset_code, fail, aware) ==
    /\ has_supabase
    /\ \E r \in verify_reset_code(Db, username, reset_code, fail, aware) :
         /\ SetDb(r.db)
         /\ verified' = IF r.ret THEN verified \cup {<<username, reset_code>>}
                        ELSE verified
         /\ ui' = [Quiet EXCEPT !.op = "verify_reset_code", !.ok = r.ret,
                                !.username = username, !.code = reset_code]
    /\ UNCHANGED <<has_supabase, now, session_state>>
    /\ UNCHANGED <<analyzer, calls>>

\* CloudUserAuth.reset_password(username_or_email, new_password)
AuthResetPassword(username, new_password, fail) ==
    /\ LET r == reset_password(Db, username, new_password, fail)
       IN  /\ SetDb(r.db)
           /\ ui' = [Quiet EXCEPT !.op = "reset_password", !.ok = r.ok,
                                  !.backend = r.backend, !.username = username]
    /\ UNCHANGED <<has_supabase, now, verified, session_state>>
    /\ UNCHANGED <<analyzer, calls>>

\* time passes
Tick ==
    /\ now < MaxTime
    /\ now' = now + 1
    /\ ui' = [Quiet EXCEPT !.op = "tick"]
    /\ UNCHANGED <<has_supabase, users, user_settings, reset_codes,
                   analysis_history, verified, session_state>>
    /\ UNCHANGED <<analyzer, calls>>

(***************************************************************************)
(* Numbers.  Prices, quantities and profits are exact rationals: a price   *)
(* is an integer, a ratio a whole percentage, and a profit is kept in      *)
(* hundredths (x100) so that price * (1 + pct/100) stays an integer.       *)
(***************************************************************************)
\* numpy.round / format(x, ".0f"): n/d to the nearest integer, ties to even
RoundHalfEven(n, d) ==
    LET q == n \div d
        r == n - d * q
    IN  IF 2 * r < d THEN q
        ELSE IF 2 * r > d THEN q + 1
        ELSE IF q % 2 = 0 THEN q ELSE q + 1

\* n/d to the nearest integer, ties away from zero
RoundHalfAway(n, d) ==
    LET q == n \div d
        r == n - d * q
    IN  IF 2 * r < d THEN q
        ELSE IF 2 * r > d THEN q + 1
        ELSE IF n >= 0 THEN q + 1 ELSE q

(***************************************************************************)
(* Market data.  The body of fetch_real_time_data after its cache lookups  *)
(* is not in the source text: what it yields is an input, a table with a   *)
(* last close, an empty table, a table without the close column, or None.  *)
(***************************************************************************)
MaxPrice == 2        \* the largest price and cost
MaxInventory == 2    \* the largest inventory

Prices == 1..MaxPrice
Markets == {[kind |-> "data", close |-> c] : c \in Prices}
             \cup {[kind |-> "empty", close |-> 0], [kind |-> "none", close |-> 0],
                   [kind |-> "no_column", close |-> 0]}

fetch_real_time_data(market) == market

(***************************************************************************)
(* CloudLithiumAnalyzer.hedge_calculation.  Its first part (the fetch, the *)
(* metrics, the breakevens, the sweep) is not in the source text and is    *)
(* taken from sections 4.1 and 4.2 of the specification; its second part   *)
(* (the figure's breakeven lines, the report, the save, the return) is     *)
(* lines 278-446 of app_cloud.py.                                          *)
(***************************************************************************)
\* hedge_contracts_int: inventory * hedge_ratio rounded as the report says
\* ("rounded half up", line 349)
HedgeContractsInt(inventory, hedge_ratio_pct) ==
    RoundHalfAway(inventory * hedge_ratio_pct, 100)

FullyHedged == [sentinel |-> TRUE, num |-> 0, den |-> 1]

\* hedge breakeven: the sentinel, or the price num/den
HedgeBreakeven(cost_price, inventory, current_price, hedge_contracts_int) ==
    IF inventory = hedge_contracts_int
    THEN FullyHedged
    ELSE [sentinel |-> FALSE,
          num |-> cost_price * inventory - current_price * hedge_contracts_int,
          den |-> inventory - hedge_contracts_int]

\* the sweep: 151 changes from -50% to +100%, one per percent; the model
\* keeps every SweepStride-th of them
SweepLow == -50
SweepHigh == 100
SweepStride == 10
SweepGrid == {pct \in SweepLow..SweepHigh : (pct - SweepLow) % SweepStride = 0}

\* one point of the sweep, profits x100
SweepPoint(current_price, cost_price, inventory, hedge_contracts_int, pct) ==
    LET future_price == current_price * (100 + pct)
        no_hedge_profit == (future_price - 100 * cost_price) * inventory
        futures_profit == (100 * current_price - future_price) * hedge_contracts_int
    IN  [future_price |-> future_price, no_hedge_profit |-> no_hedge_profit,
         hedge_profit |-> no_hedge_profit + futures_profit]

\* the values the first part hands to the second; available = FALSE is the
\* DataUnavailable failure
HedgeMetrics(cost_price, inventory, hedge_ratio_pct, margin_rate_pct, price_data) ==
    LET current_price == price_data.close
        hedge_contracts_int == HedgeContractsInt(inventory, hedge_ratio_pct)
        current_profit == (current_price - cost_price) * inventory
    IN  [available |-> price_data.kind = "data",
         current_price |-> current_price,
         hedge_contracts_int |-> hedge_contracts_int,
         total_margin |-> current_price * margin_rate_pct * hedge_contracts_int,
         current_profit |-> current_profit,
         profit_percentage |->
             IF cost_price * inventory = 0 THEN [num |-> 0, den |-> 1]
             ELSE [num |-> 100 * current_profit, den |-> cost_price * inventory],
         no_hedge_breakeven |-> cost_price,
         hedge_breakeven |-> HedgeBreakeven(cost_price, inventory, current_price,
                                            hedge_contracts_int)]

\* the two curves of the figure
ScenarioSweep(current_price, cost_price, inventory, hedge_contracts_int) ==
    [pct \in SweepGrid |->
       SweepPoint(current_price, cost_price, inventory, hedge_contracts_int, pct)]

\* a figure that draws the breakeven lines unconditionally
DrawsBreakevenLines_always(inventory, hedge_contracts_int) == TRUE

\* line 306: the breakeven lines are drawn unless fully hedged
DrawsBreakevenLines(inventory, hedge_contracts_int) ==
    inventory # hedge_contracts_int

\* a chain whose first three tests include their boundary
RiskBand_inclusive(hedge_ratio_pct) ==
    IF hedge_ratio_pct <= 10 THEN "extreme"
    ELSE IF hedge_ratio_pct <= 30 THEN "elevated"
    ELSE IF hedge_ratio_pct <= 70 THEN "moderate"
    ELSE IF hedge_ratio_pct <= 100 THEN "adequate"
    ELSE "over_hedged"

\* lines 363-377: the band of the advice
RiskBand(hedge_ratio_pct) ==
    IF hedge_ratio_pct < 10 THEN "extreme"
    ELSE IF hedge_ratio_pct < 30 THEN "elevated"
    ELSE IF hedge_ratio_pct < 70 THEN "moderate"
    ELSE IF hedge_ratio_pct <= 100 THEN "adequate"
    ELSE "over_hedged"

(***************************************************************************)
(* SupabaseManager: analysis history.  The JSON blobs input_params and     *)
(* result_data are payload no code of the model reads; they are left out.  *)
(***************************************************************************)
\* what the insert of save_analysis_result does: "stored" (response.data is
\* the row), "no_data" (no row comes back, none is kept) or "raised"
SaveOutcomes == {"stored", "no_data", "raised"}

\* a save without its try/except: the failing insert leaves the method raising
save_analysis_result_raising(db, user_id, analysis_type, outcome) ==
    [raised |-> outcome = "raised", ret |-> "", db |-> db]

\* save_analysis_result: the analysis id ("" when nothing was saved) and the tables
save_analysis_result(db, user_id, analysis_type, outcome) ==
    LET analysis_id == FreshToken({h.analysis_id : h \in db.analysis_history})
    IN  IF outcome = "stored"
        THEN [raised |-> FALSE, ret |-> analysis_id,
              db |-> [db EXCEPT !.analysis_history = @ \cup
                        {[analysis_id |-> analysis_id, user_id |-> user_id,
                          analysis_type |-> analysis_type,
                          created_at |-> now]}]]
        ELSE [raised |-> FALSE, ret |-> "", db |-> db]

NoFigure == [is_none |-> TRUE]
NoMetrics == [is_none |-> TRUE]

\* hedge_calculation: (fig, suggestions, metrics), the tables afterwards, and
\* the exception that left it, if any
hedge_calculation(db, cost_price, inventory, hedge_ratio_pct, margin_rate_pct, price_data, outcome) ==
    LET m == HedgeMetrics(cost_price, inventory, hedge_ratio_pct,
                          margin_rate_pct, price_data)
        user_info == session_state.user_info
        saves == has_supabase
        saved == save_analysis_result(db, user_info.user_id,
                                      "hedge_calculation", outcome)
        fig == [is_none |-> FALSE,
                sweep |-> ScenarioSweep(m.current_price, cost_price, inventory,
                                        m.hedge_contracts_int),
                breakeven_lines |->
                    DrawsBreakevenLines(inventory, m.hedge_contracts_int)]
        metrics == [is_none |-> FALSE,
                    current_price |-> m.current_price,
                    hedge_contracts_int |-> m.hedge_contracts_int,
                    total_margin |-> m.total_margin,
                    current_profit |-> m.current_profit,
                    profit_percentage |-> m.profit_percentage,
                    no_hedge_breakeven |-> m.no_hedge_breakeven,
                    hedge_breakeven |-> m.hedge_breakeven]
        report(saved_line) ==
            [is_none |-> FALSE, band |-> RiskBand(hedge_ratio_pct),
             rounding_note |-> "rounded half up",
             plan |-> m.hedge_contracts_int > 0, saved_line |-> saved_line]
    IN  IF ~m.available
        THEN [raised |-> "none", fig |-> NoFigure,
              suggestions |-> [is_none |-> FALSE, saved_line |-> FALSE],
              metrics |-> NoMetrics, db |-> db]
        ELSE IF ~saves
        THEN [raised |-> "none", fig |-> fig, suggestions |-> report(FALSE),
              metrics |-> metrics, db |-> db]
        ELSE IF user_info.is_none
        THEN [raised |-> "TypeError", fig |-> NoFigure,
              suggestions |-> [is_none |-> TRUE], metrics |-> NoMetrics,
              db |-> db]
        ELSE IF ~user_info.has_user_id
        THEN [raised |-> "KeyError", fig |-> NoFigure,
              suggestions |-> [is_none |-> TRUE], metrics |-> NoMetrics,
              db |-> db]
        ELSE IF saved.raised
        THEN [raised |-> "Exception", fig |-> NoFigure,
              suggestions |-> [is_none |-> TRUE], metrics |-> NoMetrics,
              db |-> saved.db]
        ELSE [raised |-> "none", fig |-> fig,
              suggestions |-> report(saved.ret # ""),
              metrics |-> metrics, db |-> saved.db]

(***************************************************************************)
(* render_hedge_page                                                       *)
(***************************************************************************)
NoHedgeResults == [present |-> FALSE]

\* a page that stores whatever the calculation returned
StoresHedgeResult_always(fig) == TRUE

\* line 1241: the result is stored when a figure came back
StoresHedgeResult(fig) == ~fig.is_none

\* lines 1430-1450, the sidebar: what reading the fetched table raises
SidebarRaises(price_data) ==
    IF price_data.kind = "none" THEN "AttributeError"
    ELSE IF price_data.kind = "no_column" THEN "KeyError"
    ELSE "none"

\* one run of the page with the widgets at the given values; should_calculate
\* is auto_update or calc_button
RenderHedgePage(cost_price, inventory, hedge_ratio_pct, margin_rate_pct, should_calculate, market, outcome) ==
    /\ PageShown("hedge")
    /\ outcome = "stored" => Cardinality(analysis_history) < MaxHistory
    /\ \E price_data \in {fetch_real_time_data(market)} :
       \E r \in {hedge_calculation(Db, cost_price, inventory, hedge_ratio_pct,
                                   margin_rate_pct, price_data, outcome)} :
       LET base == [Quiet EXCEPT !.op = "hedge", !.data = price_data.kind,
                                 !.calculated = should_calculate]
       IN  IF ~should_calculate
           THEN /\ UNCHANGED <<users, user_settings, reset_codes, analysis_history>>
                /\ session_state' = [session_state EXCEPT !.force_refresh = FALSE]
                /\ ui' = [base EXCEPT !.raised = SidebarRaises(price_data)]
           ELSE IF r.raised # "none"
           THEN /\ SetDb(r.db)
                /\ UNCHANGED session_state
                /\ ui' = [base EXCEPT !.raised = r.raised, !.save = outcome]
           ELSE /\ SetDb(r.db)
                /\ session_state' =
                     [session_state EXCEPT
                        !.force_refresh = FALSE,
                        !.hedge_results =
                           IF StoresHedgeResult(r.fig)
                           THEN [present |-> TRUE, fig |-> r.fig,
                                 suggestions |-> r.suggestions,
                                 metrics |-> r.metrics,
                                 params |-> [cost_price |-> cost_price,
                                             inventory |-> inventory,
                                             hedge_ratio_pct |-> hedge_ratio_pct,
                                             margin_rate_pct |-> margin_rate_pct]]
                           ELSE @]
                /\ ui' = [base EXCEPT
                            !.ok = ~r.fig.is_none,
                            !.shown = IF r.fig.is_none THEN "error" ELSE "none",
                            !.raised = SidebarRaises(price_data),
                            !.save = IF r.fig.is_none THEN "none" ELSE outcome,
                            !.fig_none = r.fig.is_none,
                            !.metrics_none = r.metrics.is_none,
                            !.suggestions_none = r.suggestions.is_none]
    /\ UNCHANGED <<has_supabase, now, verified>>
    /\ UNCHANGED <<analyzer, calls>>

(***************************************************************************)
(* render_scenario_page                                                    *)
(***************************************************************************)
\* scenario_options: the shock of each button, in percent; "custom" has none
ScenarioLabels == {"up10", "flat", "down10", "custom"}

ScenarioOption(label) ==
    CASE label = "up10" -> 10
      [] label = "flat" -> 0
      [] label = "down10" -> -10

\* a custom row that takes the input's value whatever is selected
CustomChange_entered(selected, custom_pct) == custom_pct

\* lines 1972-1976: the shock of the custom row, in percent
CustomChange(selected, custom_pct) ==
    IF selected = "custom" THEN custom_pct ELSE ScenarioOption(selected)

\* line 1981: int(np.round(inventory * hedge_ratio))
ScenarioHedgeContracts(inventory, hedge_ratio_pct) ==
    RoundHalfEven(inventory * hedge_ratio_pct, 100)

\* a futures leg opened at the cost price instead of the current price
ScenarioProfits_cost_basis(current_price, cost_price, inventory, hedge_contracts, change) ==
    LET scenario_price == current_price * (100 + change)
        spot_profit == (scenario_price - 100 * cost_price) * inventory
        futures_profit == (100 * cost_price - scenario_price) * hedge_contracts
    IN  [change |-> change, scenario_price |-> scenario_price,
         spot_profit |-> spot_profit, futures_profit |-> futures_profit,
         hedge_profit |-> spot_profit + futures_profit]

\* a futures leg that is long instead of short
ScenarioProfits_long(current_price, cost_price, inventory, hedge_contracts, change) ==
    LET scenario_price == current_price * (100 + change)
        spot_profit == (scenario_price - 100 * cost_price) * inventory
        futures_profit == (scenario_price - 100 * current_price) * hedge_contracts
    IN  [change |-> change, scenario_price |-> scenario_price,
         spot_profit |-> spot_profit, futures_profit |-> futures_profit,
         hedge_profit |-> spot_profit + futures_profit]

\* lines 1992-1995, profits x100
ScenarioProfits(current_price, cost_price, inventory, hedge_contracts, change) ==
    LET scenario_price == current_price * (100 + change)
        spot_profit == (scenario_price - 100 * cost_price) * inventory
        futures_profit == (100 * current_price - scenario_price) * hedge_contracts
    IN  [change |-> change, scenario_price |-> scenario_price,
         spot_profit |-> spot_profit, futures_profit |-> futures_profit,
         hedge_profit |-> spot_profit + futures_profit]

\* lines 1996-2001: the row of the table, the profits formatted "{:,.0f}"
ScenarioRow(name, p) ==
    [name |-> name, change |-> p.change,
     no_hedge |-> RoundHalfEven(p.spot_profit, 100),
     hedge |-> RoundHalfEven(p.hedge_profit, 100)]

\* the widgets' defaults: the parameters of the last hedge calculation
ScenarioDefaults ==
    IF session_state.hedge_results.present
    THEN session_state.hedge_results.params
    ELSE [cost_price |-> 100000, inventory |-> 100, hedge_ratio_pct |-> 80,
          margin_rate_pct |-> 15]

\* one run of the page: `clicked` is the scenario button pressed ("none" when
\* none is), custom_pct the value of the custom input; the three number
\* widgets are left at their defaults.  st.session_state.scenario_results is
\* the table of the last run: ui.calc.rows
RenderScenarioPage(clicked, custom_pct, market) ==
    /\ PageShown("scenario")
    /\ LET cost_price == ScenarioDefaults.cost_price
           inventory == ScenarioDefaults.inventory
           hedge_ratio_pct == ScenarioDefaults.hedge_ratio_pct
           selected == IF clicked = "none" THEN session_state.scenario_selected
                       ELSE clicked
           custom_change == CustomChange(selected, custom_pct)
           price_data == fetch_real_time_data(market)
           current_price == IF price_data.kind = "data" THEN price_data.close
                            ELSE cost_price
           hedge_contracts == ScenarioHedgeContracts(inventory, hedge_ratio_pct)
           scenarios == <<[name |-> "up10", change |-> 10],
                          [name |-> "flat", change |-> 0],
                          [name |-> "down10", change |-> -10],
                          [name |-> "custom", change |-> custom_change]>>
           points == [i \in 1..4 |->
                        ScenarioProfits(current_price, cost_price, inventory,
                                        hedge_contracts, scenarios[i].change)]
           rows == [i \in 1..4 |-> ScenarioRow(scenarios[i].name, points[i])]
           base == [Quiet EXCEPT !.op = "scenario", !.data = price_data.kind]
       IN  IF SidebarRaises(price_data) # "none"
           THEN /\ session_state' =
                     [session_state EXCEPT !.scenario_selected = selected]
                /\ ui' = [base EXCEPT !.raised = SidebarRaises(price_data)]
           ELSE /\ session_state' =
                     [session_state EXCEPT !.scenario_selected = selected]
                /\ ui' = [base EXCEPT
                            !.calculated = TRUE,
                            !.calc = [kind |-> "scenario",
                                      current_price |-> current_price,
                                      cost_price |-> cost_price,
                                      inventory |-> inventory,
                                      hedge_ratio_pct |-> hedge_ratio_pct,
                                      hedge_contracts |-> hedge_contracts,
                                      selected |-> selected,
                                      custom_pct |-> custom_pct,
                                      points |-> points, rows |-> rows]]
    /\ UNCHANGED <<has_supabase, users, user_settings, reset_codes,
                   analysis_history, now, verified>>
    /\ UNCHANGED <<analyzer, calls>>

(***************************************************************************)
(* The specification of the account flows                                  *)
(***************************************************************************)
LoginNames == {U_ali, U_bob, U_zed, U_bob_padded, EmptyStr}
RegisterNames == {U_ali, U_bob, U_ab, U_bob_padded}
Emails == {E_ali, E_bob, E_bad}
Passwords == {P_one, P_two, P_short, EmptyStr}
CodeNames == {U_ali, U_bob}

\* the database before the session: an active user and a deactivated one
InitUsers ==
    {[user_id |-> "t1", username |-> U_ali,
      password_hash |-> _hash_password(P_one), email |-> E_ali,
      is_active |-> TRUE],
     [user_id |-> "t2", username |-> U_zed,
      password_hash |-> _hash_password(P_one), email |-> E_zed,
      is_active |-> FALSE]}

\* CloudLithiumAnalyzer.__init__: both dictionaries empty
NewAnalyzer == [cached |-> FALSE, cache_time |-> 0, fetched_at |-> 0]

\* main(): the defaults of st.session_state
InitSession ==
    [authenticated |-> FALSE, user_info |-> NoUserInfo, current_page |-> "home",
     show_forgot_password |-> FALSE, show_reset_form |-> FALSE,
     reset_username |-> None, force_refresh |-> FALSE,
     hedge_results |-> NoHedgeResults, scenario_selected |-> "up10"]

Init ==
    /\ has_supabase \in BOOLEAN
    /\ users = InitUsers
    /\ user_settings = {DefaultSettings("t1")}
    /\ reset_codes = {}
    /\ analysis_history = {}
    /\ now = 0
    /\ verified = {}
    /\ session_state = InitSession
    /\ analyzer = NewAnalyzer
    /\ calls = [caller \in Callers |-> Idle]
    /\ ui = Quiet

Next ==
    \/ \E u \in LoginNames, p \in Passwords, fail \in BOOLEAN :
         LoginClick(u, p, fail)
    \/ \E u \in RegisterNames, e \in Emails, p \in Passwords,
          fail \in BOOLEAN, fail2 \in BOOLEAN :
         \E c \in {p, P_one} : RegisterClick(u, e, p, c, fail, fail2)
    \/ ForgotClick
    \/ \E u \in {U_ali, EmptyStr}, e \in {E_ali, EmptyStr} : GetCodeClick(u, e)
    \/ BackToLoginClick
    \/ \E page \in Pages : SelectPage(page)
    \/ \E o \in Passwords, p \in Passwords \cup {P_three}, fail \in BOOLEAN :
         \E c \in {p, P_one} : ChangePasswordClick(o, p, c, fail)
    \/ LogoutClick

Spec == Init /\ [][Next]_vars

(***************************************************************************)
(* The specification of the reset codes: the calls a client makes on       *)
(* SupabaseManager and CloudUserAuth while time passes                     *)
(***************************************************************************)
NextCodes ==
    \/ \E u \in CodeNames, e \in {E_ali, E_bob}, c \in ResetCodes,
          fail \in BOOLEAN :
         CreateResetCode(u, e, c, fail)
    \/ \E u \in CodeNames, c \in ResetCodes, fail \in BOOLEAN,
          aware \in BOOLEAN :
         VerifyResetCode(u, c, fail, aware)
    \/ \E u \in CodeNames, p \in {P_two, P_short}, fail \in BOOLEAN :
         AuthResetPassword(u, p, fail)
    \/ Tick

SpecCodes == Init /\ [][NextCodes]_vars

(***************************************************************************)
(* The specification of the calculators: a logged-in session on the hedge  *)
(* page and the scenario page                                              *)
(***************************************************************************)
Costs == 1..MaxPrice
Inventories == 0..MaxInventory
HedgeRatios == {0, 25, 50, 100}
MarginRates == {15}
CustomPcts == {-20}

NextCalc ==
    \/ LoginClick(U_ali, P_one, FALSE)
    \/ \E page \in {"hedge", "scenario"} : SelectPage(page)
    \/ \E go \in BOOLEAN :
         \E market \in IF go THEN Markets ELSE {k \in Markets : k.close <= 1} :
         \E c \in IF go /\ market.kind = "data" THEN Costs ELSE {1},
            i \in IF go /\ market.kind = "data" THEN Inventories ELSE {1},
            h \in IF go /\ market.kind = "data" THEN HedgeRatios ELSE {100},
            outcome \in IF go /\ market.kind = "data" THEN SaveOutcomes
                        ELSE {"stored"},
            m \in MarginRates :
           RenderHedgePage(c, i, h, m, go, market, outcome)
    \/ \E clicked \in {"none", "down10", "custom"}, market \in Markets :
         \E pct \in IF clicked = "custom"
                       \/ (clicked = "none"
                           /\ session_state.scenario_selected = "custom")
                    THEN CustomPcts ELSE {0} :
           RenderScenarioPage(clicked, pct, market)

SpecCalc == Init /\ [][NextCalc]_vars

(***************************************************************************)
(* SupabaseManager: reading and deleting the analysis history              *)
(***************************************************************************)
MaxRecords == 3      \* rows the history calls may put in analysis_history
MaxStamp == 2        \* the latest created_at of such a row (half hours)

\* the orders in which .order("created_at", desc=True) may deliver the rows:
\* newest first, rows of one instant in any order
NewestFirst(rows) ==
    {o \in [1..Cardinality(rows) -> rows] :
       /\ \A i, j \in DOMAIN o : i # j => o[i] # o[j]
       /\ \A i, j \in DOMAIN o : i < j => o[i].created_at >= o[j].created_at}

\* .limit(limit): the first rows of the order
Limit(o, limit) == SubSeq(o, 1, IF Len(o) < limit THEN Len(o) ELSE limit)

\* a history read that forgets .eq("user_id", user_id)
get_user_analysis_history_any_user(db, user_id, limit, fail) ==
    IF fail THEN {<<>>}
    ELSE {Limit(o, limit) : o \in NewestFirst(db.analysis_history)}

\* get_user_analysis_history(user_id, limit): the lists it may return
get_user_analysis_history(db, user_id, limit, fail) ==
    IF fail THEN {<<>>}
    ELSE {Limit(o, limit) :
            o \in NewestFirst({h \in db.analysis_history : h.user_id = user_id})}

\* a delete that forgets .eq("user_id", user_id)
delete_analysis_any_user(db, analysis_id, user_id, fail) ==
    LET deleted == {h \in db.analysis_history : h.analysis_id = analysis_id}
    IN  IF fail THEN [ret |-> FALSE, db |-> db]
        ELSE [ret |-> deleted # {},
              db |-> [db EXCEPT !.analysis_history = @ \ deleted]]

\* delete_analysis(analysis_id, user_id): bool(response.data) and the tables
delete_analysis(db, analysis_id, user_id, fail) ==
    LET deleted == {h \in db.analysis_history : /\ h.analysis_id = analysis_id
                                                 /\ h.user_id = user_id}
    IN  IF fail THEN [ret |-> FALSE, db |-> db]
        ELSE [ret |-> deleted # {},
              db |-> [db EXCEPT !.analysis_history = @ \ deleted]]

\* the calls a client makes
SaveAnalysis(user_id, outcome) ==
    /\ has_supabase
    /\ Cardinality(analysis_history) < MaxRecords
    /\ LET r == save_analysis_result(Db, user_id, "hedge_calculation", outcome)
       IN  /\ SetDb(r.db)
           /\ ui' = [Quiet EXCEPT !.op = "save_analysis", !.ok = r.ret # "",
                                  !.save = outcome,
                                  !.calc = [kind |-> "save", user_id |-> user_id,
                                            analysis_id |-> r.ret]]
    /\ UNCHANGED <<has_supabase, now, verified, session_state>>
    /\ UNCHANGED <<analyzer, calls>>

GetHistory(user_id, limit, fail) ==
    /\ has_supabase
    /\ \E history \in get_user_analysis_history(Db, user_id, limit, fail) :
         ui' = [Quiet EXCEPT !.op = "get_history", !.ok = ~fail,
                             !.calc = [kind |-> "history", user_id |-> user_id,
                                       limit |-> limit, history |-> history]]
    /\ UNCHANGED <<has_supabase, users, user_settings, reset_codes,
                   analysis_history, now, verified, session_state>>
    /\ UNCHANGED <<analyzer, calls>>

DeleteAnalysis(analysis_id, user_id, fail) ==
    /\ has_supabase
    /\ LET r == delete_analysis(Db, analysis_id, user_id, fail)
       IN  /\ SetDb(r.db)
           /\ ui' = [Quiet EXCEPT !.op = "delete_analysis", !.ok = r.ret,
                                  !.calc = [kind |-> "delete", user_id |-> user_id,
                                            analysis_id |-> analysis_id]]
    /\ UNCHANGED <<has_supabase, now, verified, session_state>>
    /\ UNCHANGED <<analyzer, calls>>

(***************************************************************************)
(* The specification of the analysis history: saves, reads and deletes of  *)
(* two users while time passes                                             *)
(***************************************************************************)
HistoryUsers == {"t1", "t2"}
HistoryIds == {"t1", "t2", "t3"}
Limits == {1, 2}

NextHistory ==
    \/ \E u \in HistoryUsers, outcome \in SaveOutcomes : SaveAnalysis(u, outcome)
    \/ \E u \in HistoryUsers, limit \in Limits, fail \in BOOLEAN :
         GetHistory(u, limit, fail)
    \/ \E a \in HistoryIds, u \in HistoryUsers, fail \in BOOLEAN :
         DeleteAnalysis(a, u, fail)
    \/ (now < MaxStamp /\ Tick)

SpecHistory == Init /\ [][NextHistory]_vars

(***************************************************************************)
(* CloudLithiumAnalyzer.fetch_real_time_data: the caches.  One cache key   *)
(* ("LC0_1"); the clock is in half hours, so 1800 seconds are one unit.    *)
(* What follows a miss of both caches (the download and what it stores) is *)
(* not in the source text and is taken from the specification's "cache in  *)
(* front of the accessor": a download that succeeds is cached.             *)
(***************************************************************************)
CacheLifetime == 1   \* 1800 seconds
DayLength == 48      \* 86400 seconds
MaxDays == 1         \* whole days the cache specification lets pass

\* timedelta.seconds: the seconds of the difference without its whole days
TimedeltaSeconds(delta) == delta % DayLength

\* lines 267-269: the local entry is served
LocalCacheServes(cache, force_refresh, current_time) ==
    /\ ~force_refresh
    /\ cache.cached
    /\ TimedeltaSeconds(current_time - cache.cache_time) < CacheLifetime

\* lines 273-277: the cloud cache is asked
CloudCacheAsked(force_refresh) == has_supabase /\ ~force_refresh

\* one call of fetch_real_time_data(force_refresh = force_refresh) on a kept
\* analyzer; cloud_hit: get_price_data has an unexpired table; download_ok:
\* the download, when it comes to it, succeeds
FetchRealTimeData(force_refresh, cloud_hit, download_ok) ==
    /\ LET age == now - analyzer.cache_time
           base == [kind |-> "fetch", force_refresh |-> force_refresh,
                    had_entry |-> analyzer.cached, age |-> age]
           stored == [cached |-> TRUE, cache_time |-> now, fetched_at |-> now]
       IN  IF LocalCacheServes(analyzer, force_refresh, now)
           THEN /\ UNCHANGED analyzer
                /\ ui' = [Quiet EXCEPT !.op = "fetch", !.ok = TRUE,
                                       !.calc = [base EXCEPT !.kind = "local"]]
           ELSE IF CloudCacheAsked(force_refresh) /\ cloud_hit
           THEN /\ analyzer' = stored
                /\ ui' = [Quiet EXCEPT !.op = "fetch", !.ok = TRUE,
                                       !.calc = [base EXCEPT !.kind = "cloud"]]
           ELSE /\ analyzer' = IF download_ok THEN stored ELSE analyzer
                /\ ui' = [Quiet EXCEPT !.op = "fetch", !.ok = download_ok,
                                       !.calc = [base EXCEPT !.kind = "download"]]
    /\ UNCHANGED <<has_supabase, users, user_settings, reset_codes,
                   analysis_history, now, verified, session_state, calls>>

\* a day passes
DayPasses ==
    /\ now + DayLength <= MaxDays * DayLength + MaxTime
    /\ now' = now + DayLength
    /\ ui' = [Quiet EXCEPT !.op = "day"]
    /\ UNCHANGED <<has_supabase, users, user_settings, reset_codes,
                   analysis_history, verified, session_state, analyzer,
                   calls>>

(***************************************************************************)
(* The specification of the cache: fetches on one analyzer while time      *)
(* passes                                                                  *)
(***************************************************************************)
NextCache ==
    \/ \E force_refresh \in BOOLEAN, cloud_hit \in BOOLEAN, download_ok \in BOOLEAN :
         FetchRealTimeData(force_refresh, cloud_hit, download_ok)
    \/ Tick
    \/ DayPasses

SpecCache == Init /\ [][NextCache]_vars

(***************************************************************************)
(* render_exposure_page (lines 1862-1931): quantities in whole tons        *)
(***************************************************************************)
MaxTons == 5         \* the largest quantity typed, besides the defaults

Abs(x) == IF x < 0 THEN -x ELSE x

\* the defaults of the three number inputs (lines 1871, 1877, 1883)
DefaultTons == {200, 100, 80}

\* line 1894: abs(total_exposure) / total_volume if total_volume > 0 else 0,
\* kept as a fraction
ExposureRatio(total_exposure, total_volume) ==
    IF total_volume > 0 THEN [num |-> Abs(total_exposure), den |-> total_volume]
    ELSE [num |-> 0, den |-> 1]

\* thresholds that take the boundary into the lower band
ExposureRiskLevel_inclusive(exposure_ratio) ==
    IF 10 * exposure_ratio.num <= 2 * exposure_ratio.den THEN "low"
    ELSE IF 10 * exposure_ratio.num <= 5 * exposure_ratio.den THEN "medium"
    ELSE "high"

\* lines 1896-1901: < 0.2, < 0.5, else
ExposureRiskLevel(exposure_ratio) ==
    IF 10 * exposure_ratio.num < 2 * exposure_ratio.den THEN "low"
    ELSE IF 10 * exposure_ratio.num < 5 * exposure_ratio.den THEN "medium"
    ELSE "high"

\* line 1903
RiskDirection(total_exposure) ==
    IF total_exposure > 0 THEN "up"
    ELSE IF total_exposure < 0 THEN "down"
    ELSE "neutral"

\* one run of the page with the three inputs at the given values;
\* ui.calc is st.session_state.exposure_result (lines 1923-1931)
RenderExposurePage(future_purchase, inventory, locked_sales) ==
    /\ PageShown("exposure")
    /\ LET total_exposure == future_purchase + inventory - locked_sales
           total_volume == future_purchase + inventory + locked_sales
           exposure_ratio == ExposureRatio(total_exposure, total_volume)
       IN  ui' = [Quiet EXCEPT
                    !.op = "exposure", !.calculated = TRUE,
                    !.calc = [kind |-> "exposure",
                              future_purchase |-> future_purchase,
                              inventory |-> inventory,
                              locked_sales |-> locked_sales,
                              exposure |-> total_exposure,
                              risk_level |-> ExposureRiskLevel(exposure_ratio),
                              risk_direction |-> RiskDirection(total_exposure),
                              risk_impact |-> total_exposure * 10000]]
    /\ UNCHANGED <<has_supabase, users, user_settings, reset_codes,
                   analysis_history, now, verified, session_state>>
    /\ UNCHANGED <<analyzer, calls>>

NextExposure ==
    \/ LoginClick(U_ali, P_one, FALSE)
    \/ \E page \in {"home", "exposure"} : SelectPage(page)
    \/ \E future_purchase \in (0..MaxTons) \cup DefaultTons,
          inventory \in (0..MaxTons) \cup DefaultTons,
          locked_sales \in (0..MaxTons) \cup DefaultTons :
         RenderExposurePage(future_purchase, inventory, locked_sales)

SpecExposure == Init /\ [][NextExposure]_vars

(***************************************************************************)
(* black_scholes_price (lines 604-616).  A Python float is a binary        *)
(* floating-point number; the arguments here are 0, -1 or a power of two   *)
(* 2^exp with -MaxExp <= exp <= MaxExp, the range of exponents the format  *)
(* holds (-1074..1023 for a double).  A quotient or product whose exponent *)
(* falls below the range is 0.0; one above it is inf.  The price itself    *)
(* (erf, exp) is not computed: the result says whether the function        *)
(* returned early, returned a price, or raised.                            *)
(***************************************************************************)
MaxExp == 2          \* the largest exponent of the floating-point format

FloatZero == [sign |-> 0, exp |-> 0]
FloatMinusOne == [sign |-> -1, exp |-> 0]
Pow2(e) == [sign |-> 1, exp |-> e]

Exps == (-MaxExp)..MaxExp
EvenExps == {e \in Exps : e % 2 = 0}

\* the exponent of a positive result: "zero" on underflow, "inf" on overflow
Rounded(e) ==
    IF e < -MaxExp THEN "zero" ELSE IF e > MaxExp THEN "inf" ELSE "finite"

\* lines 606-616: what a call does
black_scholes_price(option_type, spot, strike, time_years, volatility) ==
    IF spot.sign <= 0 \/ strike.sign <= 0 \/ time_years.sign <= 0
       \/ volatility.sign <= 0
    THEN [raised |-> "none", early |-> TRUE]
    \* math.log(spot / strike)
    ELSE IF Rounded(spot.exp - strike.exp) = "zero"
    THEN [raised |-> "ValueError", early |-> FALSE]
    \* volatility ** 2
    ELSE IF Rounded(2 * volatility.exp) = "inf"
    THEN [raised |-> "OverflowError", early |-> FALSE]
    \* ... / (volatility * math.sqrt(time_years))
    ELSE IF Rounded(volatility.exp + time_years.exp \div 2) = "zero"
    THEN [raised |-> "ZeroDivisionError", early |-> FALSE]
    ELSE [raised |-> "none", early |-> FALSE]

\* one call of the function
BlackScholesPrice(option_type, spot, strike, time_years, volatility) ==
    /\ \E r \in {black_scholes_price(option_type, spot, strike, time_years,
                                     volatility)} :
         ui' = [Quiet EXCEPT
                  !.op = "black_scholes", !.raised = r.raised,
                  !.ok = r.raised = "none",
                  !.calc = [kind |-> "option", option_type |-> option_type,
                            spot |-> spot, strike |-> strike,
                            time_years |-> time_years,
                            volatility |-> volatility, early |-> r.early]]
    /\ UNCHANGED <<has_supabase, users, user_settings, reset_codes,
                   analysis_history, now, verified, session_state>>
    /\ UNCHANGED <<analyzer, calls>>

Floats == {FloatZero, FloatMinusOne} \cup {Pow2(e) : e \in Exps}
Times == {FloatZero, FloatMinusOne} \cup {Pow2(e) : e \in EvenExps}

NextOption ==
    \E option_type \in {"call", "put"}, spot \in Floats,
       strike \in {FloatZero, Pow2(0), Pow2(MaxExp)}, time_years \in Times,
       volatility \in {FloatZero, Pow2(-MaxExp), Pow2(0), Pow2(MaxExp)} :
      BlackScholesPrice(option_type, spot, strike, time_years, volatility)

SpecOption == Init /\ [][NextOption]_vars

(***************************************************************************)
(* hedge_calculation called with any hedge ratio, the page's slider aside  *)
(***************************************************************************)
MaxRatio == 101      \* the largest hedge ratio, in percent

\* the ratios on both sides of every test of lines 363-377
BandRatios == {0, 9, 10, 29, 30, 69, 70, 100, MaxRatio}

\* one call of hedge_calculation; ui.calc is the report: its band and metrics
HedgeCalculation(cost_price, inventory, hedge_ratio_pct, margin_rate_pct, market, outcome) ==
    /\ outcome = "stored" => Cardinality(analysis_history) < MaxHistory
    /\ \E price_data \in {fetch_real_time_data(market)} :
       \E r \in {hedge_calculation(Db, cost_price, inventory, hedge_ratio_pct,
                                   margin_rate_pct, price_data, outcome)} :
         /\ SetDb(r.db)
         /\ ui' = [Quiet EXCEPT
                     !.op = "report", !.data = price_data.kind,
                     !.raised = r.raised,
                     !.ok = r.raised = "none" /\ ~r.fig.is_none,
                     !.calc =
                        IF r.raised = "none" /\ ~r.fig.is_none
                        THEN [kind |-> "report", cost_price |-> cost_price,
                              inventory |-> inventory,
                              hedge_ratio_pct |-> hedge_ratio_pct,
                              margin_rate_pct |-> margin_rate_pct,
                              band |-> r.suggestions.band,
                              metrics |-> r.metrics]
                        ELSE [kind |-> "none"]]
    /\ UNCHANGED <<has_supabase, now, verified, session_state>>
    /\ UNCHANGED <<analyzer, calls>>

NextBand ==
    \/ LoginClick(U_ali, P_one, FALSE)
    \/ \E inventory \in Inventories, hedge_ratio_pct \in BandRatios,
          margin_rate_pct \in MarginRates, market \in Markets,
          outcome \in {"stored", "no_data"} :
         HedgeCalculation(1, inventory, hedge_ratio_pct, margin_rate_pct,
                          market, outcome)

SpecBand == Init /\ [][NextBand]_vars

(***************************************************************************)
(* verify_reset_code as the two requests it makes, lines 266-272 and       *)
(* 283-286, with calls of other sessions in between                        *)
(***************************************************************************)
\* the select of one call, and the test of expires_at on its answer
VerifySelect(caller, username, reset_code, fail, aware) ==
    /\ has_supabase
    /\ calls[caller] = Idle
    /\ \E s \in verify_select(Db, username, reset_code, fail, aware) :
         LET answer == [kind |-> "verify", caller |-> caller,
                        code_id |-> s.code_id, at |-> now, fail |-> fail,
                        aware |-> aware,
                        valid |-> {c.code_id : c \in
                                     {c \in reset_codes :
                                        /\ c.username = username
                                        /\ c.reset_code = reset_code
                                        /\ ~c.is_used
                                        /\ now <= c.expires_at}}]
         IN  IF s.go
             THEN /\ calls' = [calls EXCEPT ![caller] =
                                 [pc |-> "update", username |-> username,
                                  reset_code |-> reset_code,
                                  code_id |-> s.code_id, at |-> now]]
                  /\ ui' = [Quiet EXCEPT !.op = "verify_select", !.ok = TRUE,
                                         !.username = username,
                                         !.code = reset_code, !.calc = answer]
             ELSE /\ UNCHANGED calls
                  /\ ui' = [Quiet EXCEPT !.op = "verify_select",
                                         !.username = username,
                                         !.code = reset_code, !.calc = answer]
    /\ UNCHANGED <<has_supabase, users, user_settings, reset_codes,
                   analysis_history, now, verified, session_state, analyzer>>

\* the update of the call, and its return
VerifyUpdate(caller, fail) ==
    /\ calls[caller] # Idle
    /\ LET call == calls[caller]
           r == verify_update(Db, call.code_id, fail)
       IN  /\ SetDb(r.db)
           /\ verified' = IF r.ret
                          THEN verified \cup {<<call.username, call.reset_code>>}
                          ELSE verified
           /\ ui' = [Quiet EXCEPT !.op = "verify_reset_code", !.ok = r.ret,
                                  !.username = call.username,
                                  !.code = call.reset_code,
                                  !.calc = [kind |-> "verify", caller |-> caller,
                                            code_id |-> call.code_id,
                                            at |-> call.at]]
    /\ calls' = [calls EXCEPT ![caller] = Idle]
    /\ UNCHANGED <<has_supabase, now, session_state, analyzer>>

NextVerify ==
    \/ \E e \in {E_ali, E_bob}, c \in ResetCodes, fail \in BOOLEAN :
         CreateResetCode(U_ali, e, c, fail)
    \/ \E caller \in Callers, u \in CodeNames, c \in ResetCodes,
          fail \in BOOLEAN, aware \in BOOLEAN :
         VerifySelect(caller, u, c, fail, aware)
    \/ \E caller \in Callers, fail \in BOOLEAN : VerifyUpdate(caller, fail)
    \/ Tick

SpecVerify == Init /\ [][NextVerify]_vars

(***************************************************************************)
(* CloudUserAuth.register and CloudUserAuth.login called directly          *)
(***************************************************************************)
\* register(username, password, email)
AuthRegister(username, password, email, fail) ==
    /\ Cardinality(users) < MaxUsers
    /\ \E r \in {register(Db, username, password, email, fail)} :
         /\ SetDb(r.db)
         /\ ui' = [Quiet EXCEPT
                     !.op = "auth_register", !.ok = r.ok,
                     !.backend = r.backend,
                     !.calc = [kind |-> "auth", username |-> username,
                               password |-> password, email |-> email,
                               called |-> r.called,
                               message |-> r.payload.kind = "str"]]
    /\ UNCHANGED <<has_supabase, now, verified, session_state>>
    /\ UNCHANGED <<analyzer, calls>>

\* login(username_or_email, password)
AuthLogin(username_or_email, password, fail) ==
    /\ \E r \in login(Db, username_or_email, password, fail) :
         /\ SetDb(r.db)
         /\ ui' = [Quiet EXCEPT
                     !.op = "auth_login", !.ok = r.ok, !.backend = r.backend,
                     !.calc = [kind |-> "auth",
                               username |-> username_or_email,
                               password |-> password, email |-> None,
                               called |-> r.called,
                               message |-> r.payload.kind = "str"]]
    /\ UNCHANGED <<has_supabase, now, verified, session_state>>
    /\ UNCHANGED <<analyzer, calls>>

AuthNames == {U_ali, U_bob, U_ab, U_ab_padded, EmptyStr, <<" ">>}
AuthPasswords == {P_one, P_short, EmptyStr}

NextAuth ==
    \/ \E u \in AuthNames, p \in AuthPasswords,
          e \in {E_ali, E_bob, E_bad, E_nodot, EmptyStr}, fail \in BOOLEAN :
         AuthRegister(u, p, e, fail)
    \/ \E u \in AuthNames \cup {E_ali}, p \in AuthPasswords, fail \in BOOLEAN :
         AuthLogin(u, p, fail)

SpecAuth == Init /\ [][NextAuth]_vars

(***************************************************************************)
(* The preferences tab of render_settings_page (lines 2355-2410)           *)
(***************************************************************************)
\* SupabaseManager.update_user_settings: True, or False from its except branch
update_user_settings(db, user_id, settings, fail) ==
    IF fail
    THEN [ret |-> PyBool(FALSE), db |-> db]
    ELSE [ret |-> PyBool(TRUE),
          db |-> [db EXCEPT !.user_settings =
                    {IF s.user_id = user_id
                     THEN [user_id |-> user_id,
                           default_cost_price |-> settings.default_cost_price,
                           default_inventory |-> settings.default_inventory,
                           default_hedge_ratio_pct |->
                               settings.default_hedge_ratio_pct,
                           theme_color |-> settings.theme_color]
                     ELSE s : s \in @}]]

\* CloudUserAuth.update_user_settings: the tuple (ok, payload) it returns
auth_update_user_settings(db, user_id, settings, fail) ==
    IF ~has_supabase
    THEN [ret |-> PyTuple(<<PyBool(FALSE), PyStr("database connection failed")>>),
          db |-> db, backend |-> "none"]
    ELSE LET out == update_user_settings(db, user_id, settings, fail)
             n == _normalize_result(out.ret, TRUE)
         IN  [ret |-> PyTuple(<<PyBool(n[1]), n[2]>>), db |-> out.db,
              backend |-> Reported(out.ret)]

\* line 2405: if analyzer.auth.update_user_settings(...)
SettingsSaved(result) == Truthy(result)

\* the "save settings" button with the four widgets at the given values
SaveSettingsClick(default_cost, default_inventory, default_ratio, theme_color, fail) ==
    /\ PageShown("settings")
    /\ ~session_state.user_info.is_none
    /\ session_state.user_info.settings.present
    /\ LET user_info == session_state.user_info
           new_settings == [present |-> TRUE,
                            default_cost_price |-> default_cost,
                            default_inventory |-> default_inventory,
                            default_hedge_ratio_pct |-> default_ratio,
                            theme_color |-> theme_color]
           r == auth_update_user_settings(Db, user_info.user_id, new_settings,
                                          fail)
           base == [Quiet EXCEPT !.op = "save_settings",
                                 !.username = user_info.username,
                                 !.calc = [kind |-> "settings",
                                           new_settings |-> new_settings]]
       IN  IF ~user_info.has_user_id
           THEN /\ UNCHANGED <<users, user_settings, reset_codes,
                               analysis_history, session_state>>
                /\ ui' = [base EXCEPT !.raised = "KeyError"]
           ELSE /\ SetDb(r.db)
                /\ session_state' =
                     IF SettingsSaved(r.ret)
                     THEN [session_state EXCEPT
                             !.user_info.settings = new_settings]
                     ELSE session_state
                /\ ui' = [base EXCEPT
                            !.ok = SettingsSaved(r.ret),
                            !.backend = r.backend,
                            !.shown = IF SettingsSaved(r.ret) THEN "success"
                                      ELSE "error"]
    /\ UNCHANGED <<has_supabase, now, verified>>
    /\ UNCHANGED <<analyzer, calls>>

NextSettings ==
    \/ LoginClick(U_ali, P_one, FALSE)
    \/ \E page \in {"home", "settings"} : SelectPage(page)
    \/ \E default_cost \in Costs, default_inventory \in Inventories,
          default_ratio \in {0, 50}, theme_color \in {"blue", "green"},
          fail \in BOOLEAN :
         SaveSettingsClick(default_cost, default_inventory, default_ratio,
                           theme_color, fail)

SpecSettings == Init /\ [][NextSettings]_vars

(***************************************************************************)
(* Properties of the calculators, checked under SpecCalc                   *)
(***************************************************************************)
HedgeRendered == ui.op = "hedge" /\ ui.calculated

ScenarioRendered == ui.op = "scenario" /\ ui.calculated

HedgeStored == session_state.hedge_results.present

\* C1: a hedge calculation on an empty table, on a table without the close
\* column or on no table returns neither a figure nor metrics; the page then
\* shows the error, stores no result (the result of an earlier run stays as
\* it was) and nothing is added to the history.
C1_EmptySeriesFailsWhole ==
    [][(ui'.op = "hedge" /\ ui'.calculated /\ ui'.data # "data")
         => /\ ui'.fig_none /\ ui'.metrics_none
            /\ ui'.shown = "error"
            /\ session_state'.hedge_results = session_state.hedge_results
            /\ analysis_history' = analysis_history]_vars

\* a calculation on an empty table that came after a successful one
C1_Witness ==
    /\ HedgeRendered /\ ui.data = "empty" /\ ui.shown = "error"
    /\ HedgeStored

\* C2: whatever the insert of save_analysis_result does (row returned, no row
\* returned, exception), a calculation on usable data raises nothing and
\* returns figure, report and metrics; the report carries the "saved to the
\* cloud" line exactly when an id came back.
C2_SaveFailureNonFatal ==
    (HedgeRendered /\ ui.data = "data")
      => /\ ui.raised = "none"
         /\ ~ui.fig_none /\ ~ui.metrics_none /\ ~ui.suggestions_none
         /\ HedgeStored
         /\ session_state.hedge_results.suggestions.saved_line
              <=> ui.save = "stored"

\* a calculation whose insert raised inside save_analysis_result
C2_Witness ==
    /\ HedgeRendered /\ ui.data = "data" /\ ui.save = "raised"
    /\ ~ui.fig_none
    /\ ~session_state.hedge_results.suggestions.saved_line

\* C4: at every point of the sweep and in every row of the scenario table,
\* future_price = current_price * (1 + shock) and hedge_profit minus
\* no_hedge_profit is (current_price - future_price) * hedge_contracts_int,
\* an expression in which cost_price does not occur.
C4_HedgeOverlayIsFuturesLeg ==
    /\ HedgeStored =>
         LET m == session_state.hedge_results.metrics
             sweep == session_state.hedge_results.fig.sweep
         IN  \A pct \in DOMAIN sweep :
               /\ sweep[pct].future_price = m.current_price * (100 + pct)
               /\ sweep[pct].hedge_profit - sweep[pct].no_hedge_profit
                    = (100 * m.current_price - sweep[pct].future_price)
                        * m.hedge_contracts_int
    /\ ScenarioRendered =>
         \A i \in DOMAIN ui.calc.points :
           LET pt == ui.calc.points[i]
           IN  /\ pt.scenario_price = ui.calc.current_price * (100 + pt.change)
               /\ pt.hedge_profit - pt.spot_profit
                    = (100 * ui.calc.current_price - pt.scenario_price)
                        * ui.calc.hedge_contracts

\* a scenario table, with a hedge, computed after a hedge calculation with a
\* hedge and at a cost different from the price
C4_Witness ==
    /\ ScenarioRendered /\ ui.calc.hedge_contracts > 0
    /\ ui.calc.cost_price # ui.calc.current_price
    /\ HedgeStored
    /\ session_state.hedge_results.metrics.hedge_contracts_int > 0

\* C5: when hedge_contracts_int = inventory, hedge_profit is
\* (current_price - cost_price) * inventory at every point of the sweep and
\* in every row of the scenario table.
C5_FullHedgeIsPriceInvariant ==
    /\ (/\ HedgeStored
        /\ session_state.hedge_results.metrics.hedge_contracts_int
             = session_state.hedge_results.params.inventory) =>
         LET m == session_state.hedge_results.metrics
             par == session_state.hedge_results.params
             sweep == session_state.hedge_results.fig.sweep
         IN  \A pct \in DOMAIN sweep :
               sweep[pct].hedge_profit
                 = 100 * (m.current_price - par.cost_price) * par.inventory
    /\ (ScenarioRendered /\ ui.calc.hedge_contracts = ui.calc.inventory) =>
         \A i \in DOMAIN ui.calc.points :
           ui.calc.points[i].hedge_profit
             = 100 * (ui.calc.current_price - ui.calc.cost_price)
                 * ui.calc.inventory

\* a fully hedged, non-empty inventory in the sweep and in the table, the
\* table having at least three different shocks
C5_Witness ==
    /\ ScenarioRendered /\ ui.calc.inventory > 0
    /\ ui.calc.hedge_contracts = ui.calc.inventory
    /\ Cardinality({ui.calc.points[i].change : i \in DOMAIN ui.calc.points}) >= 3
    /\ HedgeStored
    /\ session_state.hedge_results.metrics.hedge_contracts_int
         = session_state.hedge_results.params.inventory

\* C6: the hedge breakeven is the sentinel exactly when inventory =
\* hedge_contracts_int, and the figure draws the breakeven lines exactly when
\* it is not; otherwise it is the price P = num/den with den = inventory -
\* hedge_contracts_int, not zero, and P solves
\* (P - cost_price) * inventory + (current_price - P) * hedge_contracts_int = 0
\* (stated multiplied by den).
C6_BreakevenSentinelOrRoot ==
    HedgeStored =>
      LET m == session_state.hedge_results.metrics
          par == session_state.hedge_results.params
          b == m.hedge_breakeven
      IN  /\ b.sentinel <=> par.inventory = m.hedge_contracts_int
          /\ session_state.hedge_results.fig.breakeven_lines <=> ~b.sentinel
          /\ ~b.sentinel =>
               /\ b.den # 0
               /\ b.den = par.inventory - m.hedge_contracts_int
               /\ (b.num - par.cost_price * b.den) * par.inventory
                    + (m.current_price * b.den - b.num) * m.hedge_contracts_int
                    = 0

\* a partial hedge whose breakeven differs from the cost price
C6_Witness ==
    /\ HedgeStored
    /\ ~session_state.hedge_results.metrics.hedge_breakeven.sentinel
    /\ session_state.hedge_results.metrics.hedge_contracts_int > 0
    /\ session_state.hedge_results.metrics.hedge_breakeven.num
         # session_state.hedge_results.params.cost_price
             * session_state.hedge_results.metrics.hedge_breakeven.den

\* C7: the number of contracts is inventory * hedge_ratio rounded to the
\* nearest integer, ties away from zero, in the hedge calculation and in the
\* scenario comparison alike.
C7_RoundsHalfAwayEverywhere ==
    /\ HedgeStored =>
         session_state.hedge_results.metrics.hedge_contracts_int
           = RoundHalfAway(session_state.hedge_results.params.inventory
                             * session_state.hedge_results.params.hedge_ratio_pct,
                           100)
    /\ ScenarioRendered =>
         ui.calc.hedge_contracts
           = RoundHalfAway(ui.calc.inventory * ui.calc.hedge_ratio_pct, 100)

(***************************************************************************)
(* Properties of the account flows, checked under Spec                     *)
(***************************************************************************)
\* C3: when authenticate_user reports a failure, login returns ok = False and
\* the session stays unauthenticated.
C3_LoginOnlyWhenAuthenticated ==
    (ui.op = "login" /\ ui.backend = "failure")
      => (~ui.ok /\ ~session_state.authenticated)

\* C9: in the session of a stored user, a change of password whose old
\* password does not match the stored one returns ok = False and leaves the
\* users table as it was.
C9_OldPasswordChecked ==
    [][(/\ ui'.op = "change_password" /\ ~ui'.old_matched
        /\ \E u \in users : /\ u.username = ui'.username
                             /\ u.user_id = session_state.user_info.user_id)
         => (~ui'.ok /\ users' = users)]_vars

\* C10: a registration whose username or email belongs to an existing user
\* adds no user, returns ok = False, shows the error and attempts no login.
C10_DuplicateRejected ==
    [][(ui'.op \in {"register", "register_page"} /\ ui'.existed)
         => /\ users' = users
            /\ ~ui'.ok /\ ~ui'.autologin
            /\ ui'.shown = "error"
            /\ session_state' = session_state]_vars

(***************************************************************************)
(* Properties of the reset codes, checked under SpecCodes                  *)
(***************************************************************************)
\* C8: reset_password replaces a stored password only for a username for
\* which verify_reset_code has returned True.
C8_ResetNeedsVerifiedCode ==
    [][(ui'.op = "reset_password" /\ users' # users)
         => \E c \in ResetCodes : <<ui'.username, c>> \in verified]_vars

(***************************************************************************)
(* Properties of the analysis history, checked under SpecHistory           *)
(***************************************************************************)
\* C11: whatever was saved and deleted before, the list a history read
\* returns holds only rows of the table that belong to the user asked for,
\* each once, newest first, and at most `limit` of them; a read whose query
\* raises returns the empty list.
C11_HistoryOwnNewestFirstLimited ==
    (ui.op = "get_history") =>
      LET history == ui.calc.history
      IN  /\ \A i \in DOMAIN history :
               /\ history[i].user_id = ui.calc.user_id
               /\ history[i] \in analysis_history
          /\ \A i, j \in DOMAIN history :
               i < j => /\ history[i].created_at >= history[j].created_at
                        /\ history[i] # history[j]
          /\ Len(history) <= ui.calc.limit
          /\ ~ui.ok => history = <<>>
          /\ ui.raised = "none"

\* a read cut by its limit, of rows of different instants, while the other
\* user has a row too
C11_Witness ==
    /\ ui.op = "get_history" /\ ui.calc.limit = 2 /\ Len(ui.calc.history) = 2
    /\ ui.calc.history[1].created_at > ui.calc.history[2].created_at
    /\ \E h \in analysis_history : h.user_id # ui.calc.user_id
    /\ Cardinality({h \in analysis_history : h.user_id = ui.calc.user_id}) = 2

\* C12: a delete removes exactly the rows whose analysis_id and user_id both
\* equal the arguments and returns whether there was one; with no such row,
\* or when its query raises, it returns False and the table is unchanged.
C12_DeleteOnlyOwnRecord ==
    [][(ui'.op = "delete_analysis")
         => /\ analysis_history' \subseteq analysis_history
            /\ \A h \in analysis_history \ analysis_history' :
                 /\ h.analysis_id = ui'.calc.analysis_id
                 /\ h.user_id = ui'.calc.user_id
            /\ ui'.ok <=> analysis_history' # analysis_history
            /\ (~\E h \in analysis_history :
                   /\ h.analysis_id = ui'.calc.analysis_id
                   /\ h.user_id = ui'.calc.user_id)
                 => (~ui'.ok /\ analysis_history' = analysis_history)
            /\ UNCHANGED <<users, user_settings, reset_codes>>]_vars

\* a refused delete of another user's record, two records being stored
C12_Witness ==
    /\ ui.op = "delete_analysis" /\ ~ui.ok
    /\ \E h \in analysis_history : /\ h.analysis_id = ui.calc.analysis_id
                                   /\ h.user_id # ui.calc.user_id
    /\ Cardinality(analysis_history) >= 2

(***************************************************************************)
(* Properties of the cache, checked under SpecCache                        *)
(***************************************************************************)
\* C13: a fetch returns the local cache entry only when force_refresh is off
\* and the entry was stored less than 1800 seconds before the call.
C13_LocalCacheYoungerThanTtl ==
    [][(ui'.op = "fetch" /\ ui'.calc.kind = "local")
         => /\ ~ui'.calc.force_refresh
            /\ analyzer.cached
            /\ now - analyzer.cache_time < CacheLifetime]_vars

C15_ExposureNetAndLevel ==
    ui.op = "exposure" =>
      LET c == ui.calc
          net == c.future_purchase + c.inventory - c.locked_sales
          total == c.future_purchase + c.inventory + c.locked_sales
          mag == IF net < 0 THEN -net ELSE net
          below20 == total = 0 \/ 5 * mag < total
          below50 == total = 0 \/ 2 * mag < total
      IN  /\ c.exposure = net
          /\ c.risk_level \in {"low", "medium", "high"}
          /\ c.risk_level = "low" <=> below20
          /\ c.risk_level = "medium" <=> (~below20 /\ below50)
          /\ c.risk_level = "high" <=> ~below50

\* the page at its defaults: 200, 100, 80 give 220 tons and level high
C15_Witness ==
    /\ ui.op = "exposure"
    /\ ui.calc.future_purchase = 200 /\ ui.calc.inventory = 100
    /\ ui.calc.locked_sales = 80
    /\ ui.calc.exposure = 220 /\ ui.calc.risk_level = "high"

(***************************************************************************)
(* Properties of the scenario table, checked under SpecCalc                *)
(***************************************************************************)
\* C16: the scenario table has exactly one row per shock of +10%, 0%, -10%
\* and custom, in that order; each row is computed at its shock with
\* spot_profit = (price - cost) * inventory and futures_profit =
\* (current - price) * hedge_contracts; the custom shock is the entered
\* percentage when "custom" is selected and the selected preset's otherwise.
C16_OneRowPerShock ==
    ScenarioRendered =>
      LET c == ui.calc
          names == <<"up10", "flat", "down10", "custom">>
          custom == IF c.selected = "custom" THEN c.custom_pct
                    ELSE IF c.selected = "up10" THEN 10
                    ELSE IF c.selected = "flat" THEN 0
                    ELSE -10
          shocks == <<10, 0, -10, custom>>
      IN  /\ Len(c.rows) = 4 /\ Len(c.points) = 4
          /\ \A i \in 1..4 :
               LET price == c.current_price * (100 + shocks[i])
                   spot == (price - 100 * c.cost_price) * c.inventory
                   futures == (100 * c.current_price - price) * c.hedge_contracts
               IN  /\ c.rows[i].name = names[i]
                   /\ c.rows[i].change = shocks[i]
                   /\ c.points[i].spot_profit = spot
                   /\ c.points[i].futures_profit = futures
                   /\ c.rows[i].no_hedge = RoundHalfEven(spot, 100)
                   /\ c.rows[i].hedge = RoundHalfEven(spot + futures, 100)

\* a table whose custom row follows the selected preset -10%, with a hedge on
C16_Witness ==
    /\ ScenarioRendered
    /\ ui.calc.selected = "down10"
    /\ ui.calc.rows[4].change = -10
    /\ ui.calc.hedge_contracts > 0
    /\ ui.calc.points[4].futures_profit > 0

(***************************************************************************)
(* Properties of the option pricer, checked under SpecOption               *)
(***************************************************************************)
\* C17: black_scholes_price is total: it returns 0.0 when spot, strike,
\* time_years or volatility is <= 0, and for all other inputs it returns a
\* price without dividing by zero or taking the log of a non-positive number.
C17_BlackScholesTotal ==
    ui.op = "black_scholes" =>
      /\ ui.raised = "none"
      /\ ui.calc.early <=> \/ ui.calc.spot.sign <= 0
                           \/ ui.calc.strike.sign <= 0
                           \/ ui.calc.time_years.sign <= 0
                           \/ ui.calc.volatility.sign <= 0

(***************************************************************************)
(* Properties of the risk band, checked under SpecBand                     *)
(***************************************************************************)
ReportMade == ui.op = "report" /\ ui.ok

\* C18: every hedge ratio >= 0 gets exactly one band: below 10% extreme,
\* below 30% elevated, below 70% moderate, up to 100% adequate, above 100%
\* over-hedged; and the band reaches none of the metrics: two reports that
\* differ only in the hedge ratio and round to the same number of contracts
\* have the same metrics, whatever their bands.
C18_OneBandAdvisoryOnly ==
    /\ [](ReportMade =>
            LET r == ui.calc.hedge_ratio_pct
                band == ui.calc.band
            IN  /\ r >= 0
                /\ band = "extreme" <=> r < 10
                /\ band = "elevated" <=> (10 <= r /\ r < 30)
                /\ band = "moderate" <=> (30 <= r /\ r < 70)
                /\ band = "adequate" <=> (70 <= r /\ r <= 100)
                /\ band = "over_hedged" <=> r > 100)
    /\ [][(/\ ReportMade /\ ReportMade'
           /\ ui'.calc.cost_price = ui.calc.cost_price
           /\ ui'.calc.inventory = ui.calc.inventory
           /\ ui'.calc.margin_rate_pct = ui.calc.margin_rate_pct
           /\ ui'.calc.metrics.current_price = ui.calc.metrics.current_price
           /\ ui'.calc.metrics.hedge_contracts_int
                = ui.calc.metrics.hedge_contracts_int)
            => ui'.calc.metrics = ui.calc.metrics]_vars

\* a report with a hedge ratio above 100%, a position held
C18_Witness ==
    /\ ReportMade
    /\ ui.calc.hedge_ratio_pct > 100 /\ ui.calc.band = "over_hedged"
    /\ ui.calc.metrics.hedge_contracts_int > 0

C20_IssuedCodeAccepted ==
    [][(/\ ui'.op = "verify_select"
        /\ ~ui'.calc.fail
        /\ ui'.calc.valid # {})
         => ui'.ok]_vars

(***************************************************************************)
(* Properties of CloudUserAuth's input checks, checked under SpecAuth      *)
(***************************************************************************)
\* C21: register returns (False, message) without a backend call, the tables
\* unchanged, when the stripped username has fewer than 3 characters, the
\* email lacks '@' or '.', or the password has fewer than 6 characters;
\* login does so when the username/email or the password is empty.
C21_InvalidInputNeverReachesBackend ==
    [][LET c == ui'.calc
           refused == /\ ~ui'.ok /\ c.message /\ ~c.called
                      /\ UNCHANGED <<users, user_settings, reset_codes,
                                     analysis_history>>
       IN  /\ (/\ ui'.op = "auth_register"
               /\ \/ Len(strip(c.username)) < 3
                  \/ ~Contains(c.email, "@")
                  \/ ~Contains(c.email, ".")
                  \/ Len(c.password) < 6)
                => refused
           /\ (/\ ui'.op = "auth_login"
               /\ (c.username = <<>> \/ c.password = <<>>))
                => refused]_vars

\* a register refused for a name that is long enough only with its blanks
C21_Witness ==
    /\ has_supabase
    /\ ui.op = "auth_register" /\ ~ui.ok /\ ~ui.calc.called
    /\ ui.calc.username = U_ab_padded
    /\ ui.calc.email = E_ali /\ ui.calc.password = P_one

(***************************************************************************)
(* Properties of the preferences tab, checked under SpecSettings           *)
(***************************************************************************)
\* C22: saving the preferences reports success and replaces the session's
\* settings only when the backend update succeeded; when it failed the page
\* shows the error and the session's settings are unchanged.
C22_SettingsReplacedOnlyOnSuccess ==
    [][(ui'.op = "save_settings" /\ ui'.raised = "none")
         => /\ (ui'.shown = "success" \/ session_state' # session_state)
                 => ui'.backend = "success"
            /\ ui'.backend # "success"
                 => (ui'.shown = "error" /\ session_state' = session_state)]_vars

(***************************************************************************)
(* Properties of the password recovery pages, checked under Spec           *)
(***************************************************************************)
\* C23: in an unauthenticated session, once the "get the code" button of the
\* forgot-password page was pressed with the name and the email of a stored
\* user, the backend being there, the code is obtained (reset_username is
\* that name, show_reset_form is set) and the next render shows the
\* reset-password form.
C23_ResetFormFollowsGetCode ==
    (/\ ui.op = "get_code"
     /\ has_supabase
     /\ \E u \in users : u.username = ui.username /\ u.email = ui.calc.email)
      => /\ session_state.reset_username = ui.username
         /\ session_state.show_reset_form
         /\ ResetPageShown

====
